---- MODULE Spec2Model ----
(***************************************************************************)
(* The LS-8 emulator of src/ls8/cpu.py: the CPU object (memory, registers, *)
(* PC, flags, dispatch table), its constructor, its loader and its         *)
(* fetch-decode-execute loop.                                              *)
(*                                                                         *)
(* Python values are modelled as records [k, n, d]: an int n is            *)
(* [k |-> "int", n |-> n, d |-> 1], a float is the fraction n/d in lowest  *)
(* terms with k = "float" (what `/=` produces, even for 8 / 2), and None   *)
(* has k = "None".  Python ints are unbounded, so no width is applied      *)
(* anywhere the code applies none.                                         *)
(***************************************************************************)
EXTENDS Integers, Sequences, FiniteSets, TLC

(* ---------------------------------------------------------------- *)
(* Opcodes, cpu.py lines 7-26                                       *)
(* ---------------------------------------------------------------- *)
HLT == 1
LDI == 130
PRN == 71
ADD == 160
SUB == 161
MUL == 162
DIV == 163
PUSH == 69
POP == 70
CALL == 80
RET == 17
CMP == 167
JEQ == 85
JMP == 84
JNE == 86

\* len(self.ram), len(self.reg), the stack pointer's register and initial value
RamSize == 256
NumRegs == 8
SP == 7
SPInit == 244

(* ---------------------------------------------------------------- *)
(* Python values                                                    *)
(* ---------------------------------------------------------------- *)
PyInt(n) == [k |-> "int", n |-> n, d |-> 1]

None == [k |-> "None", n |-> 0, d |-> 1]

Abs(x) == IF x < 0 THEN -x ELSE x

RECURSIVE GCD(_, _)
GCD(a, b) == IF b = 0 THEN a ELSE GCD(b, a % b)

\* the float n/d (d # 0), in lowest terms with a positive denominator
PyFloat(n, d) ==
    LET s == IF d < 0 THEN -1 ELSE 1
        g == GCD(Abs(n), Abs(d))
    IN  [k |-> "float", n |-> (s * n) \div g, d |-> (s * d) \div g]

\* a result is an int only when both operands are ints
Num(n, d, a, b) ==
    IF a.k = "int" /\ b.k = "int" THEN PyInt(n) ELSE PyFloat(n, d)

PyAdd(a, b) == Num(a.n * b.d + b.n * a.d, a.d * b.d, a, b)
PySub(a, b) == Num(a.n * b.d - b.n * a.d, a.d * b.d, a, b)
PyMul(a, b) == Num(a.n * b.n, a.d * b.d, a, b)
\* `/` is true division: the result is a float whatever the operands (b # 0)
PyTrueDiv(a, b) == PyFloat(a.n * b.d, a.d * b.n)
PyEq(a, b) == a.n * b.d = b.n * a.d
PyIsZero(a) == a.n = 0

\* list[v] on a list of length N: the exception it raises, or "none"
IndexErr(v, N) ==
    IF v.k # "int" THEN "TypeError"
    ELSE IF v.n >= -N /\ v.n < N THEN "none"
    ELSE "IndexError"

\* the cell list[v] names when IndexErr is "none": a negative v counts from the end
Index(v, N) == v.n % N

(* ---------------------------------------------------------------- *)
(* State                                                            *)
(* ---------------------------------------------------------------- *)
VARIABLES
    pos,          \* the caller's position: "new", "load", "run"
    argc,         \* len(sys.argv)
    fileExists,   \* whether open(sys.argv[1]) finds the file
    file,         \* the program image: a sequence of lines, each a sequence of characters
    ram, reg, PC, IR, MAR, MDR, FL,   \* the fields of __init__
    fl,           \* the attribute self.fl that alu creates (Unset until then)
    running,
    branchtable,  \* opcode -> name of the handler method
    ctorErr,      \* the exception CPU() raised, or "none"
    exc,          \* the exception that ended load or run, or "none"
    out,          \* the values print() wrote for PRN, in order
    diag,         \* the message load printed, or ""
    acc,          \* the addresses ram_read / ram_write subscripted in the last cycle
    hist,         \* the states before the last cycles, most recent first
    steps         \* cycles of run executed

vars == <<pos, argc, fileExists, file, ram, reg, PC, IR, MAR, MDR, FL, fl, running,
          branchtable, ctorErr, exc, out, diag, acc, hist, steps>>

\* self.fl before alu's CMP branch has assigned it: the attribute does not exist
Unset == -1

(* ---------------------------------------------------------------- *)
(* CPU.__init__, lines 32-62                                        *)
(* ---------------------------------------------------------------- *)
\* the handle_* methods the class defines (lines 153-206); handle_CMP is
\* commented out at lines 196-197
Methods ==
    {"handle_HLT", "handle_LDI", "handle_PRN", "handle_POP", "handle_PUSH",
     "handle_CALL", "handle_RET", "handle_JEQ", "handle_JMP", "handle_JNE"}

\* the assignments self.branchtable[op] = self.handle_X, lines 48-62, in order
Registrations ==
    << <<HLT, "handle_HLT">>, <<LDI, "handle_LDI">>, <<PRN, "handle_PRN">>,
       <<PUSH, "handle_PUSH">>, <<POP, "handle_POP">>,
       <<CALL, "handle_CALL">>, <<RET, "handle_RET">>,
       <<CMP, "handle_CMP">>,
       <<JMP, "handle_JMP">>, <<JEQ, "handle_JEQ">>, <<JNE, "handle_JNE">> >>

\* evaluating self.handle_X for a method the class lacks raises AttributeError
InitRaises ==
    IF \E i \in 1..Len(Registrations) : Registrations[i][2] \notin Methods
    THEN "AttributeError" ELSE "none"

\* the table of the registrations whose right-hand side evaluates
InitTable ==
    LET ok == {i \in 1..Len(Registrations) : Registrations[i][2] \in Methods}
    IN  [op \in {Registrations[i][1] : i \in ok} |->
            Registrations[CHOOSE i \in ok : Registrations[i][1] = op][2]]

\* cpu = CPU().  Line 58 raises, so the call itself fails (ctorErr); the fields
\* are the ones lines 34-45 assign and the table holds every handler the class
\* has, which is the object the loader and the loop below are run on.
Construct ==
    /\ pos = "new"
    /\ pos' = "load"
    /\ ram' = [a \in 0..(RamSize - 1) |-> PyInt(0)]
    /\ reg' = [i \in 0..(NumRegs - 1) |-> IF i = SP THEN PyInt(SPInit) ELSE PyInt(0)]
    /\ PC' = PyInt(0)
    /\ IR' = None
    /\ MAR' = PyInt(0)
    /\ MDR' = None
    /\ FL' = 0
    /\ running' = TRUE
    /\ branchtable' = InitTable
    /\ ctorErr' = InitRaises
    /\ UNCHANGED <<argc, fileExists, file, fl, exc, out, diag, acc, hist, steps>>

(* ---------------------------------------------------------------- *)
(* CPU.load, lines 65-88                                            *)
(* ---------------------------------------------------------------- *)
SetMin(S) == CHOOSE x \in S : \A y \in S : x <= y

\* line.split('#')[0]
SplitHash(line) ==
    LET idx == {i \in 1..Len(line) : line[i] = "#"}
    IN  IF idx = {} THEN line ELSE SubSeq(line, 1, SetMin(idx) - 1)

Whitespace == {" ", "\n"}

\* str.strip() as int() applies it before parsing
RECURSIVE StripRight(_)
StripRight(s) ==
    IF s # <<>> /\ s[Len(s)] \in Whitespace THEN StripRight(SubSeq(s, 1, Len(s) - 1))
    ELSE s

RECURSIVE StripLeft(_)
StripLeft(s) ==
    IF s # <<>> /\ s[1] \in Whitespace THEN StripLeft(Tail(s)) ELSE s

RECURSIVE BinValue(_)
BinValue(s) ==
    IF s = <<>> THEN 0
    ELSE 2 * BinValue(SubSeq(s, 1, Len(s) - 1)) + (IF s[Len(s)] = "1" THEN 1 ELSE 0)

\* int(instruction, 2): -1 stands for ValueError (the text is not binary digits)
ParseBin(instruction) ==
    LET t == StripLeft(StripRight(instruction))
    IN  IF t = <<>> \/ \E i \in 1..Len(t) : t[i] \notin {"0", "1"} THEN -1
        ELSE BinValue(t)

\* the for loop with the whole payload parsed, not its first 8 characters
RECURSIVE LoadLines_WholeLine(_, _, _)
LoadLines_WholeLine(lines, i, l) ==
    IF i > Len(lines) \/ l.exc # "none" THEN l
    ELSE LET string == SplitHash(lines[i])
         IN  IF string = <<>> THEN LoadLines_WholeLine(lines, i + 1, l)
             ELSE IF string[1] \in {"0", "1"} THEN
                 LET v == ParseBin(string)
                 IN  IF v = -1 THEN [l EXCEPT !.exc = "ValueError"]
                     ELSE IF IndexErr(l.MAR, RamSize) # "none"
                          THEN [l EXCEPT !.exc = IndexErr(l.MAR, RamSize)]
                     ELSE LoadLines_WholeLine(lines, i + 1,
                              [l EXCEPT !.ram[Index(l.MAR, RamSize)] = PyInt(v),
                                        !.MAR = PyAdd(l.MAR, PyInt(1))])
             ELSE LoadLines_WholeLine(lines, i + 1, l)

\* the for loop of lines 74-84 over the lines from index i on; l = [ram, MAR, exc]
RECURSIVE LoadLines(_, _, _)
LoadLines(lines, i, l) ==
    IF i > Len(lines) \/ l.exc # "none" THEN l
    ELSE
        LET string == SplitHash(lines[i])
        IN  IF string = <<>> THEN LoadLines(lines, i + 1, l)
            ELSE IF string[1] \in {"0", "1"} THEN
                LET instruction == SubSeq(string, 1, IF Len(string) < 8 THEN Len(string) ELSE 8)
                    v == ParseBin(instruction)
                IN  IF v = -1 THEN [l EXCEPT !.exc = "ValueError"]
                    ELSE IF IndexErr(l.MAR, RamSize) # "none"
                    THEN [l EXCEPT !.exc = IndexErr(l.MAR, RamSize)]
                    ELSE LoadLines(lines, i + 1,
                            [l EXCEPT !.ram[Index(l.MAR, RamSize)] = PyInt(v),
                                      !.MAR = PyAdd(l.MAR, PyInt(1))])
            ELSE LoadLines(lines, i + 1, l)

\* cpu.load()
Load ==
    /\ pos = "load"
    /\ pos' = "run"
    /\ IF argc # 2
       THEN /\ diag' = "Usage: cpu.py filename"
            /\ exc' = "SystemExit"
            /\ UNCHANGED <<ram, MAR>>
       ELSE IF ~fileExists
       THEN /\ diag' = "not found"
            /\ exc' = "SystemExit"
            /\ UNCHANGED <<ram, MAR>>
       ELSE LET l == LoadLines(file, 1, [ram |-> ram, MAR |-> MAR, exc |-> "none"])
            IN  /\ ram' = l.ram
                /\ MAR' = l.MAR
                /\ exc' = l.exc
                /\ UNCHANGED diag
    /\ UNCHANGED <<argc, fileExists, file, reg, PC, IR, MDR, FL, fl, running,
                   branchtable, ctorErr, out, acc, hist, steps>>

(* ---------------------------------------------------------------- *)
(* The machine as one record m, and the methods as operators on it. *)
(* An exception is m.exc # "none": it keeps every assignment made   *)
(* before the raise, and every later statement is skipped.          *)
(* ---------------------------------------------------------------- *)
Self ==
    [ram |-> ram, reg |-> reg, PC |-> PC, IR |-> IR, MAR |-> MAR, MDR |-> MDR,
     fl |-> fl, running |-> running, out |-> out, exc |-> exc, acc |-> acc]

Raise(m, e) == [m EXCEPT !.exc = e]

\* ram_read, lines 121-125; the value returned is the result's MDR
RamRead(m, address) ==
    LET m1 == [m EXCEPT !.MAR = address]
        e  == IndexErr(address, RamSize)
    IN  IF e # "none" THEN Raise(m1, e)
        ELSE [m1 EXCEPT !.MDR = m.ram[Index(address, RamSize)],
                        !.acc = @ \cup {address}]

\* ram_write, lines 127-131
RamWrite(m, address, value) ==
    LET m1 == [m EXCEPT !.MAR = address, !.MDR = value]
        e  == IndexErr(address, RamSize)
    IN  IF e # "none" THEN Raise(m1, e)
        ELSE [m1 EXCEPT !.ram[Index(address, RamSize)] = value,
                        !.acc = @ \cup {address}]

\* self.reg[r] = v
SetReg(m, r, v) ==
    IF IndexErr(r, NumRegs) # "none" THEN Raise(m, IndexErr(r, NumRegs))
    ELSE [m EXCEPT !.reg[Index(r, NumRegs)] = v]

\* self.reg[r] as an expression: the exception it raises, and its value
RegErr(r) == IndexErr(r, NumRegs)
RegVal(m, r) == m.reg[Index(r, NumRegs)]

\* AluResult with the MUL branch adding instead of multiplying
AluResult_MulAdds(op, x, y) ==
    IF op = ADD THEN PyAdd(x, y)
    ELSE IF op = SUB THEN PySub(x, y)
    ELSE IF op = MUL THEN PyAdd(x, y)
    ELSE PyTrueDiv(x, y)

\* alu's arithmetic branches, lines 93-100: self.reg[reg_a] OP= self.reg[reg_b]
AluResult(op, x, y) ==
    IF op = ADD THEN PyAdd(x, y)
    ELSE IF op = SUB THEN PySub(x, y)
    ELSE IF op = MUL THEN PyMul(x, y)
    ELSE PyTrueDiv(x, y)

\* alu's CMP branch, lines 103-117: the value self.fl ends with.  All three
\* conditions are the same equality test.
CmpFlags(x, y) ==
    LET e == IF PyEq(x, y) THEN 1 ELSE 0
        g == IF PyEq(x, y) THEN 2 ELSE 0
        l == IF PyEq(x, y) THEN 4 ELSE 0
    IN  e + g + l

\* alu with a zero divisor giving 0 instead of raising
alu_DivZeroIsZero(m, op, reg_a, reg_b) ==
    IF op \in {ADD, SUB, MUL, DIV} THEN
        IF RegErr(reg_a) # "none" THEN Raise(m, RegErr(reg_a))
        ELSE IF RegErr(reg_b) # "none" THEN Raise(m, RegErr(reg_b))
        ELSE IF op = DIV /\ PyIsZero(RegVal(m, reg_b)) THEN SetReg(m, reg_a, PyInt(0))
        ELSE SetReg(m, reg_a, AluResult(op, RegVal(m, reg_a), RegVal(m, reg_b)))
    ELSE IF op = CMP THEN
        LET m1 == [m EXCEPT !.fl = 0]
        IN  IF RegErr(reg_a) # "none" THEN Raise(m1, RegErr(reg_a))
            ELSE IF RegErr(reg_b) # "none" THEN Raise(m1, RegErr(reg_b))
            ELSE [m1 EXCEPT !.fl = CmpFlags(RegVal(m, reg_a), RegVal(m, reg_b))]
    ELSE Raise(m, "Exception")

\* alu whose CMP branch does not reset the flags before it sets them
alu_CmpKeepsFlags(m, op, reg_a, reg_b) ==
    IF op \in {ADD, SUB, MUL, DIV} THEN
        IF RegErr(reg_a) # "none" THEN Raise(m, RegErr(reg_a))
        ELSE IF RegErr(reg_b) # "none" THEN Raise(m, RegErr(reg_b))
        ELSE IF op = DIV /\ PyIsZero(RegVal(m, reg_b)) THEN Raise(m, "ZeroDivisionError")
        ELSE SetReg(m, reg_a, AluResult(op, RegVal(m, reg_a), RegVal(m, reg_b)))
    ELSE IF op = CMP THEN
        LET m1 == [m EXCEPT !.fl = IF @ = Unset THEN 0 ELSE @]
        IN  IF RegErr(reg_a) # "none" THEN Raise(m1, RegErr(reg_a))
            ELSE IF RegErr(reg_b) # "none" THEN Raise(m1, RegErr(reg_b))
            ELSE [m1 EXCEPT !.fl = IF CmpFlags(RegVal(m, reg_a), RegVal(m, reg_b)) > @
                                   THEN CmpFlags(RegVal(m, reg_a), RegVal(m, reg_b)) ELSE @]
    ELSE Raise(m, "Exception")

\* alu, lines 91-119
alu(m, op, reg_a, reg_b) ==
    IF op \in {ADD, SUB, MUL, DIV} THEN
        IF RegErr(reg_a) # "none" THEN Raise(m, RegErr(reg_a))
        ELSE IF RegErr(reg_b) # "none" THEN Raise(m, RegErr(reg_b))
        ELSE IF op = DIV /\ PyIsZero(RegVal(m, reg_b)) THEN Raise(m, "ZeroDivisionError")
        ELSE SetReg(m, reg_a, AluResult(op, RegVal(m, reg_a), RegVal(m, reg_b)))
    ELSE IF op = CMP THEN
        LET m1 == [m EXCEPT !.fl = 0]
        IN  IF RegErr(reg_a) # "none" THEN Raise(m1, RegErr(reg_a))
            ELSE IF RegErr(reg_b) # "none" THEN Raise(m1, RegErr(reg_b))
            ELSE [m1 EXCEPT !.fl = CmpFlags(RegVal(m, reg_a), RegVal(m, reg_b))]
    ELSE Raise(m, "Exception")

\* handle_HLT, lines 153-155: sys.exit() raises SystemExit
handle_HLT(m) == Raise([m EXCEPT !.running = FALSE], "SystemExit")

\* handle_LDI, lines 157-161
handle_LDI(m) ==
    LET m1 == RamRead(m, PyAdd(m.PC, PyInt(1)))
    IN  IF m1.exc # "none" THEN m1 ELSE
    LET register == m1.MDR
        m2 == RamRead(m1, PyAdd(m.PC, PyInt(2)))
    IN  IF m2.exc # "none" THEN m2 ELSE
    SetReg(m2, register, m2.MDR)

\* handle_PRN printing its operand, the register's number, not the register
handle_PRN_PrintsOperand(m) ==
    LET m1 == RamRead(m, PyAdd(m.PC, PyInt(1)))
    IN  IF m1.exc # "none" THEN m1 ELSE
    LET register == m1.MDR
    IN  IF RegErr(register) # "none" THEN Raise(m1, RegErr(register))
        ELSE [m1 EXCEPT !.out = Append(@, register)]

\* handle_PRN, lines 163-165
handle_PRN(m) ==
    LET m1 == RamRead(m, PyAdd(m.PC, PyInt(1)))
    IN  IF m1.exc # "none" THEN m1 ELSE
    LET register == m1.MDR
    IN  IF RegErr(register) # "none" THEN Raise(m1, RegErr(register))
        ELSE [m1 EXCEPT !.out = Append(@, RegVal(m1, register))]

\* handle_POP, lines 167-172
handle_POP(m) ==
    LET m1 == RamRead(m, m.reg[SP])
    IN  IF m1.exc # "none" THEN m1 ELSE
    LET value == m1.MDR
        m2 == RamRead(m1, PyAdd(m.PC, PyInt(1)))
    IN  IF m2.exc # "none" THEN m2 ELSE
    LET register == m2.MDR
        m3 == SetReg(m2, register, value)
    IN  IF m3.exc # "none" THEN m3 ELSE
    [m3 EXCEPT !.reg[SP] = PyAdd(@, PyInt(1))]

\* handle_PUSH reading the register before it decrements the stack pointer
handle_PUSH_ValueFirst(m) ==
    LET m2 == RamRead(m, PyAdd(m.PC, PyInt(1)))
    IN  IF m2.exc # "none" THEN m2 ELSE
    LET register == m2.MDR
    IN  IF RegErr(register) # "none" THEN Raise(m2, RegErr(register)) ELSE
    LET m3 == [m2 EXCEPT !.reg[SP] = PySub(@, PyInt(1))]
    IN  RamWrite(m3, m3.reg[SP], RegVal(m2, register))

\* handle_PUSH, lines 174-179
handle_PUSH(m) ==
    LET m1 == [m EXCEPT !.reg[SP] = PySub(@, PyInt(1))]
        m2 == RamRead(m1, PyAdd(m.PC, PyInt(1)))
    IN  IF m2.exc # "none" THEN m2 ELSE
    LET register == m2.MDR
    IN  IF RegErr(register) # "none" THEN Raise(m2, RegErr(register)) ELSE
    RamWrite(m2, m2.reg[SP], RegVal(m2, register))

\* handle_CALL pushing the address of the CALL itself, not of the next instruction
handle_CALL_PushesPC(m) ==
    LET return_address == m.PC
        m1 == [m EXCEPT !.reg[SP] = PySub(@, PyInt(1))]
        m2 == RamWrite(m1, m1.reg[SP], return_address)
    IN  IF m2.exc # "none" THEN m2 ELSE
    LET m3 == RamRead(m2, PyAdd(m.PC, PyInt(1)))
    IN  IF m3.exc # "none" THEN m3 ELSE
    LET reg_value == m3.MDR
    IN  IF RegErr(reg_value) # "none" THEN Raise(m3, RegErr(reg_value)) ELSE
    [m3 EXCEPT !.PC = RegVal(m3, reg_value)]

\* handle_CALL, lines 181-188
handle_CALL(m) ==
    LET return_address == PyAdd(m.PC, PyInt(2))
        m1 == [m EXCEPT !.reg[SP] = PySub(@, PyInt(1))]
        m2 == RamWrite(m1, m1.reg[SP], return_address)
    IN  IF m2.exc # "none" THEN m2 ELSE
    LET m3 == RamRead(m2, PyAdd(m.PC, PyInt(1)))
    IN  IF m3.exc # "none" THEN m3 ELSE
    LET reg_value == m3.MDR
    IN  IF RegErr(reg_value) # "none" THEN Raise(m3, RegErr(reg_value)) ELSE
    [m3 EXCEPT !.PC = RegVal(m3, reg_value)]

\* handle_RET, lines 190-194
handle_RET(m) ==
    LET m1 == RamRead(m, m.reg[SP])
    IN  IF m1.exc # "none" THEN m1 ELSE
    [m1 EXCEPT !.reg[SP] = PyAdd(@, PyInt(1)), !.PC = m1.MDR]

\* handle_JEQ, handle_JMP, handle_JNE, lines 199-206: each body is `pass`
handle_JEQ(m) == m
handle_JMP(m) == m
handle_JNE(m) == m

\* self.branchtable[self.IR](): the call of the method the table names
Call(name, m) ==
    CASE name = "handle_HLT"  -> handle_HLT(m)
      [] name = "handle_LDI"  -> handle_LDI(m)
      [] name = "handle_PRN"  -> handle_PRN(m)
      [] name = "handle_PUSH" -> handle_PUSH(m)
      [] name = "handle_POP"  -> handle_POP(m)
      [] name = "handle_CALL" -> handle_CALL(m)
      [] name = "handle_RET"  -> handle_RET(m)
      [] name = "handle_JEQ"  -> handle_JEQ(m)
      [] name = "handle_JMP"  -> handle_JMP(m)
      [] name = "handle_JNE"  -> handle_JNE(m)

\* x >> s and x & 1 on Python ints (arithmetic shift: floor division)
Shr(x, s) == x \div (2 ^ s)
Bit0(x) == x % 2

\* a fetch that reads only the operand bytes the opcode's top two bits announce
Fetch_OperandsAsNeeded(m) ==
    LET m1 == RamRead([m EXCEPT !.acc = {}], m.PC)
    IN  IF m1.exc # "none" THEN m1 ELSE
    LET m2 == [m1 EXCEPT !.IR = m1.MDR]
    IN  IF m2.IR.k # "int" THEN Raise(m2, "TypeError") ELSE
        IF Shr(m2.IR.n, 6) = 0 THEN m2 ELSE
    LET m3 == RamRead(m2, PyAdd(m.PC, PyInt(1)))
    IN  IF m3.exc # "none" \/ Shr(m2.IR.n, 6) = 1 THEN m3 ELSE
    RamRead(m3, PyAdd(m.PC, PyInt(2)))

\* run, lines 211-217: the three reads and the shift, before anything is dispatched
Fetch(m) ==
    LET m1 == RamRead([m EXCEPT !.acc = {}], m.PC)
    IN  IF m1.exc # "none" THEN m1 ELSE
    LET m2 == [m1 EXCEPT !.IR = m1.MDR]
    IN  IF m2.IR.k # "int" THEN Raise(m2, "TypeError") ELSE
    LET m3 == RamRead(m2, PyAdd(m.PC, PyInt(1)))
    IN  IF m3.exc # "none" THEN m3 ELSE
    RamRead(m3, PyAdd(m.PC, PyInt(2)))

\* the operand bytes the loop read: operand_a, operand_b (when Fetch raised nothing)
OperandA(m) == m.ram[Index(PyAdd(m.PC, PyInt(1)), RamSize)]
OperandB(m) == m.ram[Index(PyAdd(m.PC, PyInt(2)), RamSize)]

\* Dispatch with a missing table entry skipped (dict.get) instead of raising
Dispatch_SkipsUnknown(m, f) ==
    IF Bit0(Shr(f.IR.n, 5)) = 1 THEN alu(f, f.IR.n, OperandA(m), OperandB(m))
    ELSE IF f.IR.n \in DOMAIN branchtable THEN Call(branchtable[f.IR.n], f)
    ELSE f

\* run, lines 219-224: the dispatch of a fetched instruction
Dispatch(m, f) ==
    IF Bit0(Shr(f.IR.n, 5)) = 1 THEN alu(f, f.IR.n, OperandA(m), OperandB(m))
    ELSE IF f.IR.n \in DOMAIN branchtable THEN Call(branchtable[f.IR.n], f)
    ELSE Raise(f, "KeyError")

\* an advance that does not test bit 4: PC += operands + 1 after every instruction
Advance_Always(m, instruction) ==
    [m EXCEPT !.PC = PyAdd(@, PyInt(Shr(instruction, 6) + 1))]

\* run, lines 226-229: the loop's own advance of PC
Advance(m, instruction) ==
    IF Bit0(Shr(instruction, 4)) = 0
    THEN [m EXCEPT !.PC = PyAdd(@, PyInt(Shr(instruction, 6) + 1))]
    ELSE m

\* one iteration of the while loop of run, lines 210-229
Cycle(m) ==
    LET f == Fetch(m)
    IN  IF f.exc # "none" THEN f ELSE
    LET x == Dispatch(m, f)
    IN  IF x.exc # "none" THEN x ELSE
    Advance(x, f.IR.n)

(* ---------------------------------------------------------------- *)
(* cpu.run(): one action per kind of cycle                          *)
(* ---------------------------------------------------------------- *)
\* cycles of run a behaviour may take (a program may loop for ever)
MaxSteps == 8

\* what the cycle starting in m does: "fault" (a fetch raised), "alu",
\* "unknown" (no table entry), or the name of the handler called
OpKind(m) ==
    LET f == Fetch(m)
    IN  IF f.exc # "none" THEN "fault"
        ELSE IF Bit0(Shr(f.IR.n, 5)) = 1 THEN "alu"
        ELSE IF f.IR.n \in DOMAIN branchtable THEN branchtable[f.IR.n]
        ELSE "unknown"

\* the state a cycle starts in, as the later states remember it
Snap(m) == [PC |-> m.PC, reg |-> m.reg, ram |-> m.ram, fl |-> m.fl, out |-> m.out]

Commit(m) ==
    /\ ram' = m.ram
    /\ reg' = m.reg
    /\ PC' = m.PC
    /\ IR' = m.IR
    /\ MAR' = m.MAR
    /\ MDR' = m.MDR
    /\ fl' = m.fl
    /\ running' = m.running
    /\ out' = m.out
    /\ exc' = m.exc
    /\ acc' = m.acc
    /\ hist' = <<Snap(Self)>> \o (IF hist = <<>> THEN <<>> ELSE <<hist[1]>>)
    /\ steps' = steps + 1
    /\ UNCHANGED <<pos, argc, fileExists, file, FL, branchtable, ctorErr, diag>>

\* a loop that an exception does not end: it goes on while self.running
Looping_AfterRaise == pos = "run" /\ running /\ steps < MaxSteps

\* `while self.running` is entered, and the process has not raised
Looping == pos = "run" /\ running /\ exc = "none" /\ steps < MaxSteps

Run_Fault == Looping /\ OpKind(Self) = "fault" /\ Commit(Cycle(Self))
Run_ALU == Looping /\ OpKind(Self) = "alu" /\ Commit(Cycle(Self))
Run_Unknown == Looping /\ OpKind(Self) = "unknown" /\ Commit(Cycle(Self))
Run_HLT == Looping /\ OpKind(Self) = "handle_HLT" /\ Commit(Cycle(Self))
Run_LDI == Looping /\ OpKind(Self) = "handle_LDI" /\ Commit(Cycle(Self))
Run_PRN == Looping /\ OpKind(Self) = "handle_PRN" /\ Commit(Cycle(Self))
Run_PUSH == Looping /\ OpKind(Self) = "handle_PUSH" /\ Commit(Cycle(Self))
Run_POP == Looping /\ OpKind(Self) = "handle_POP" /\ Commit(Cycle(Self))
Run_CALL == Looping /\ OpKind(Self) = "handle_CALL" /\ Commit(Cycle(Self))
Run_RET == Looping /\ OpKind(Self) = "handle_RET" /\ Commit(Cycle(Self))
Run_JEQ == Looping /\ OpKind(Self) = "handle_JEQ" /\ Commit(Cycle(Self))
Run_JMP == Looping /\ OpKind(Self) = "handle_JMP" /\ Commit(Cycle(Self))
Run_JNE == Looping /\ OpKind(Self) = "handle_JNE" /\ Commit(Cycle(Self))

(* ---------------------------------------------------------------- *)
(* Program images                                                   *)
(* ---------------------------------------------------------------- *)
I_LDI(r, v) == <<LDI, r, v>>
I_PRN(r) == <<PRN, r>>
I_PUSH(r) == <<PUSH, r>>
I_POP(r) == <<POP, r>>
I_CALL(r) == <<CALL, r>>
I_ALU(op, a, b) == <<op, a, b>>
I_J(op, r) == <<op, r>>

\* register values the ALU programs load
Vals == {0, 2, 3, 5, 7, 8, 9, 200, 255}
RegPairs == {<<0, 1>>, <<1, 0>>, <<0, 0>>}

\* LDI r0,x; LDI r1,y; OP a,b; PRN a; HLT
AluPrograms ==
    {I_LDI(0, x) \o I_LDI(1, y) \o I_ALU(op, p[1], p[2]) \o I_PRN(p[1]) \o <<HLT>> :
        x \in Vals, y \in Vals, op \in {ADD, SUB, MUL, DIV, CMP}, p \in RegPairs}

\* LDI r0,x; LDI r1,y; PRN r0; DIV r0,r1; PRN r0; HLT
DivPrograms ==
    {I_LDI(0, x) \o I_LDI(1, y) \o I_PRN(0) \o I_ALU(DIV, 0, 1) \o I_PRN(0) \o <<HLT>> :
        x \in {0, 7, 8}, y \in {0, 2}}

\* any byte at address 0, alone or followed by operands and HLT
FirstBytePrograms ==
    {<<b>> \o t : b \in 0..255, t \in {<<>>, <<0, 1, HLT>>}}

\* LDI r0,x; LDI r1,y; LDI r2,t; CMP r0,r1; J r2; PRN r0; HLT   (J at 12, HLT at 16)
BranchPrograms ==
    {I_LDI(0, x) \o I_LDI(1, y) \o I_LDI(2, t) \o I_ALU(CMP, 0, 1) \o I_J(j, 2)
        \o I_PRN(0) \o <<HLT>> :
        x \in {2, 5}, y \in {2, 5}, t \in {12, 14, 16}, j \in {JEQ, JNE, JMP}}

\* LDI r0,x; LDI r7,s; PUSH r; POP q; HLT   (PUSH at 6, POP at 8, HLT at 10)
StackPrograms ==
    {I_LDI(0, x) \o I_LDI(SP, s) \o I_PUSH(r) \o I_POP(q) \o <<HLT>> :
        x \in {5, 200}, s \in {0, 1, 9, 10, SPInit, 255}, r \in {0, SP}, q \in {0, 1, SP}}

\* LDI r0,v; LDI r7,s; OP r7,r0; I; HLT: a stack pointer outside 0..255
FarStackPrograms ==
    {I_LDI(0, sv[2]) \o I_LDI(SP, sv[1]) \o I_ALU(op, SP, 0) \o i \o <<HLT>> :
        sv \in {<<255, 1>>, <<0, 1>>, <<255, 255>>, <<1, 255>>}, op \in {ADD, SUB},
        i \in {I_PUSH(0), I_POP(0), I_CALL(0), <<RET>>}}

Zeros(n) == [i \in 1..n |-> 0]

\* a CALL whose stack slot is its own operand byte: the CALL r1 at 3 runs a second
\* time with SP = 5, stores its return address 5 over its operand and so jumps
\* to reg[5] = 40, where a RET waits
OverlapProgram ==
    I_LDI(1, 20) \o I_CALL(1) \o <<HLT>> \o Zeros(14)
    \o I_LDI(SP, 6) \o I_LDI(5, 40) \o I_LDI(2, 3) \o I_CALL(2) \o Zeros(9) \o <<RET>>

\* LDI r0,t; LDI r7,s; CALL r; HLT; 0...; RET at 10   (CALL at 6, HLT at 8)
CallPrograms ==
    {I_LDI(0, 10) \o I_LDI(SP, s) \o I_CALL(r) \o <<HLT, 0>> \o <<c>> :
        s \in {0, 1, 8, 11, SPInit}, r \in {0, SP}, c \in {RET, HLT}}
    \cup
    \* five LDI, then CALL r7 at 15: the return address 17 it pushes is RET's opcode
    {I_LDI(0, 1) \o I_LDI(1, 1) \o I_LDI(2, 1) \o I_LDI(3, 1) \o I_LDI(4, 1)
        \o I_CALL(SP) \o <<HLT>>}
    \cup {OverlapProgram}

\* LDI r0,v; PUSH r0; RET; HLT   (HLT at 6): RET to a pushed address
RetPrograms ==
    {I_LDI(0, v) \o I_PUSH(0) \o <<RET, HLT>> : v \in {6, 254, 255}}

\* LDI r0,7; LDI r1,2; DIV a,r1; I; HLT: a float as address, index or target
FloatPrograms ==
    {I_LDI(0, 7) \o I_LDI(1, 2) \o I_ALU(DIV, a, 1) \o i \o <<HLT>> :
        a \in {0, SP}, i \in {I_CALL(0), I_PUSH(0), I_POP(0), <<RET>>, I_PRN(0)}}

\* LDI r0,x; LDI r1,y; CMP r0,r1; CMP a,b; PRN r0; HLT: a CMP after a CMP (r2 is 0)
CmpCmpPrograms ==
    {I_LDI(0, x) \o I_LDI(1, y) \o I_ALU(CMP, 0, 1) \o I_ALU(CMP, p[1], p[2])
        \o I_PRN(0) \o <<HLT>> :
        x \in {2, 5}, y \in {2, 5}, p \in {<<0, 2>>, <<0, 0>>, <<1, 0>>}}

\* a HLT stored in the last cells of memory and then jumped to:
\* LDI r7,255; LDI r0,HLT; PUSH r0; LDI r1,254; CALL r1            (HLT at 254)
\* LDI r0,HLT; LDI r7,255; ADD r7,r0; PUSH r0; LDI r1,255; CALL r1  (HLT at 255)
EdgePrograms ==
    {I_LDI(SP, 255) \o I_LDI(0, HLT) \o I_PUSH(0) \o I_LDI(1, 254) \o I_CALL(1),
     I_LDI(0, HLT) \o I_LDI(SP, 255) \o I_ALU(ADD, SP, 0) \o I_PUSH(0)
        \o I_LDI(1, 255) \o I_CALL(1)}

Programs ==
    AluPrograms \cup DivPrograms \cup FirstBytePrograms \cup BranchPrograms
    \cup StackPrograms \cup FarStackPrograms \cup CallPrograms \cup RetPrograms
    \cup FloatPrograms \cup CmpCmpPrograms \cup EdgePrograms

\* the eight binary digits of a byte, most significant first
Bits(b) == [i \in 1..8 |-> IF Bit0(Shr(b, 8 - i)) = 1 THEN "1" ELSE "0"]

\* the image file of a program: a comment line, a blank line, one byte per line
FileOf(prog) ==
    <<  <<"#", "x", "\n">>, <<"\n">>  >> \o [i \in 1..Len(prog) |-> Bits(prog[i]) \o <<"\n">>]

\* image files that are not one byte per line
\* only comments, blank lines and lines that do not start with a digit
CommentsOnlyFile ==
    <<  <<"#", "x", "\n">>, <<"\n">>, <<"#", "1", "\n">>, <<" ", "1", "\n">>,
        <<"x", "0", "\n">>  >>

\* LDI r0,8; PRN r0; HLT written with a ninth digit, short literals, comments
\* after the digits and no newline at the end of the file
RaggedFile ==
    <<  <<"1", "0", "0", "0", "0", "0", "1", "0", "1", "\n">>,
        <<"\n">>,
        <<"0", " ", "#", "x", "\n">>,
        <<"1", "0", "0", "0", "#", "1", "1", "1", "1", "\n">>,
        <<"#", "x", "\n">>,
        <<"0", "1", "0", "0", "0", "1", "1", "1", " ", "#", "x", "\n">>,
        <<"0", "\n">>,
        <<"1">>  >>

\* lines that start with a digit and are no binary literal
BadDigitFile ==
    <<  Bits(HLT) \o <<"\n">>,
        <<"1", "0", "x", "0", "0", "0", "0", "1", "\n">>,
        Bits(HLT) \o <<"\n">>  >>
BadSpaceFile == <<  <<"1", " ", "1", "\n">>  >>

LoaderFiles == {CommentsOnlyFile, RaggedFile, BadDigitFile, BadSpaceFile}

Files == {FileOf(prog) : prog \in Programs} \cup LoaderFiles

(* ---------------------------------------------------------------- *)
(* The process: cpu = CPU(); cpu.load(); cpu.run()                  *)
(* ---------------------------------------------------------------- *)
Init ==
    /\ pos = "new"
    /\ \/ argc = 2 /\ fileExists = TRUE /\ file \in Files
       \/ argc = 2 /\ fileExists = FALSE /\ file = <<>>
       \/ argc \in {1, 3} /\ fileExists = FALSE /\ file = <<>>
    /\ ram = <<>>
    /\ reg = <<>>
    /\ PC = None
    /\ IR = None
    /\ MAR = None
    /\ MDR = None
    /\ FL = Unset
    /\ fl = Unset
    /\ running = FALSE
    /\ branchtable = <<>>
    /\ ctorErr = "none"
    /\ exc = "none"
    /\ out = <<>>
    /\ diag = ""
    /\ acc = {}
    /\ hist = <<>>
    /\ steps = 0

Next ==
    \/ Construct
    \/ Load
    \/ Run_Fault
    \/ Run_ALU
    \/ Run_Unknown
    \/ Run_HLT
    \/ Run_LDI
    \/ Run_PRN
    \/ Run_PUSH
    \/ Run_POP
    \/ Run_CALL
    \/ Run_RET
    \/ Run_JEQ
    \/ Run_JMP
    \/ Run_JNE

Spec == Init /\ [][Next]_vars

(* ---------------------------------------------------------------- *)
(* Vocabulary of the properties                                     *)
(* ---------------------------------------------------------------- *)
\* the i-th byte of the image file (its lines 1 and 2 are the comment and the blank)
FileByte(i) == BinValue(SubSeq(file[i + 2], 1, 8))
ImageIs(prog) ==
    /\ Len(file) = Len(prog) + 2
    /\ \A i \in 1..Len(prog) : FileByte(i) = prog[i]

\* the state the last cycle started in, and the one before it
Pre == hist[1]
Pre2 == hist[2]

\* snapshot h is about to execute opcode op, its operand bytes inside memory
At(h, op) ==
    /\ \A i \in 0..2 : IndexErr(PyAdd(h.PC, PyInt(i)), RamSize) = "none"
    /\ h.ram[Index(h.PC, RamSize)] = PyInt(op)
ArgA(h) == h.ram[Index(PyAdd(h.PC, PyInt(1)), RamSize)]
ArgB(h) == h.ram[Index(PyAdd(h.PC, PyInt(2)), RamSize)]
IsReg(v) == v.k = "int" /\ v.n \in 0..(NumRegs - 1)

\* the last cycle executed opcode op
Ran(op) == steps >= 1 /\ At(Pre, op)

\* the E bit of the flags value CMP leaves
FlagE(f) == f # Unset /\ Bit0(f) = 1
FlagG(f) == f # Unset /\ Bit0(Shr(f, 1)) = 1
FlagL(f) == f # Unset /\ Bit0(Shr(f, 2)) = 1

(* ---------------------------------------------------------------- *)
(* C1: run on LDI r0,8; LDI r1,9; MUL r0,r1; PRN r0; HLT, the loop  *)
(* prints exactly 72 and then ends by HLT's sys.exit(): five cycles, *)
(* none of them raising anything else, the output never more than    *)
(* <<72>>.                                                           *)
(* ---------------------------------------------------------------- *)
MultProgram == I_LDI(0, 8) \o I_LDI(1, 9) \o I_ALU(MUL, 0, 1) \o I_PRN(0) \o <<HLT>>

AddProgram(x, y) == I_LDI(0, x) \o I_LDI(1, y) \o I_ALU(ADD, 0, 1) \o I_PRN(0) \o <<HLT>>

C2_AddWraps ==
    \A x \in Vals, y \in Vals :
        (pos = "run" /\ ImageIs(AddProgram(x, y)) /\ steps >= 4) =>
            /\ out = <<PyInt((x + y) % 256)>>
            /\ exc \in {"none", "SystemExit"}

(* ---------------------------------------------------------------- *)
(* C3: after CMP a,b the flags hold exactly one of E, G, L: E iff    *)
(* reg[a] = reg[b], G iff reg[a] > reg[b], L iff reg[a] < reg[b].    *)
(* Stated of self.fl, the value alu's CMP branch writes (self.FL,    *)
(* the field __init__ creates, is never written at all).             *)
(* ---------------------------------------------------------------- *)
C3_CmpOneFlag ==
    (Ran(CMP) /\ exc = "none" /\ IsReg(ArgA(Pre)) /\ IsReg(ArgB(Pre))) =>
        LET x == Pre.reg[ArgA(Pre).n]
            y == Pre.reg[ArgB(Pre).n]
        IN  /\ FlagE(fl) <=> x.n * y.d = y.n * x.d
            /\ FlagG(fl) <=> x.n * y.d > y.n * x.d
            /\ FlagL(fl) <=> x.n * y.d < y.n * x.d

(* ---------------------------------------------------------------- *)
(* C4: once a CMP has run, JEQ r at p sets PC to reg[r] when the E   *)
(* bit it left is set and to p + 2 when it is clear; JNE r sets PC   *)
(* to reg[r] when E is clear and to p + 2 when it is set.            *)
(* ---------------------------------------------------------------- *)
C4_CondJump ==
    /\ (Ran(JEQ) /\ exc = "none" /\ IsReg(ArgA(Pre)) /\ Pre.fl # Unset) =>
            PC = (IF FlagE(Pre.fl) THEN Pre.reg[ArgA(Pre).n] ELSE PyAdd(Pre.PC, PyInt(2)))
    /\ (Ran(JNE) /\ exc = "none" /\ IsReg(ArgA(Pre)) /\ Pre.fl # Unset) =>
            PC = (IF ~FlagE(Pre.fl) THEN Pre.reg[ArgA(Pre).n] ELSE PyAdd(Pre.PC, PyInt(2)))

(* ---------------------------------------------------------------- *)
(* C5, as stated: if CALL r runs at p with stack pointer s and the   *)
(* byte at address reg[r] is RET (both read when the CALL starts),   *)
(* then the next cycle raises nothing and leaves PC = p + 2 and      *)
(* reg[7] = s.                                                       *)
(* ---------------------------------------------------------------- *)
C5_CallRetAsStated ==
    (/\ steps >= 2
     /\ At(Pre2, CALL)
     /\ IsReg(ArgA(Pre2))
     /\ IndexErr(Pre2.reg[ArgA(Pre2).n], RamSize) = "none"
     /\ Pre2.ram[Index(Pre2.reg[ArgA(Pre2).n], RamSize)] = PyInt(RET)) =>
        /\ exc = "none"
        /\ PC = PyAdd(Pre2.PC, PyInt(2))
        /\ reg[SP] = Pre2.reg[SP]

(* ---------------------------------------------------------------- *)
(* C5, amended: if a CALL runs at p with stack pointer s and the     *)
(* instruction at the address it leaves in PC is RET once the CALL   *)
(* has stored its return address, then the RET raises nothing and    *)
(* leaves PC = p + 2 and reg[7] = s.                                 *)
(* ---------------------------------------------------------------- *)
C5_CallThenRet ==
    (steps >= 2 /\ At(Pre2, CALL) /\ At(Pre, RET)) =>
        /\ exc = "none"
        /\ PC = PyAdd(Pre2.PC, PyInt(2))
        /\ reg[SP] = Pre2.reg[SP]

C5_Witness ==
    /\ steps >= 2 /\ At(Pre2, CALL) /\ At(Pre, RET) /\ exc = "none"
    /\ IsReg(ArgA(Pre2))
    /\ Pre.PC = Pre2.reg[ArgA(Pre2).n]
    /\ PC = PyAdd(Pre2.PC, PyInt(2))

(* ---------------------------------------------------------------- *)
(* C6: for r in 0..7, PUSH r followed at once by POP r raises nothing *)
(* and leaves reg[r] and reg[7] as they were before the PUSH.         *)
(* ---------------------------------------------------------------- *)
C6_PushPop ==
    (/\ steps >= 2
     /\ At(Pre2, PUSH) /\ At(Pre, POP)
     /\ IsReg(ArgA(Pre)) /\ ArgA(Pre2) = ArgA(Pre)) =>
        /\ exc = "none"
        /\ reg[ArgA(Pre).n] = Pre2.reg[ArgA(Pre).n]
        /\ reg[SP] = Pre2.reg[SP]

\* the case of the stack pointer pushed and popped into itself
C6_Witness ==
    /\ steps >= 2 /\ At(Pre2, PUSH) /\ At(Pre, POP) /\ exc = "none"
    /\ ArgA(Pre2) = PyInt(SP) /\ ArgA(Pre) = PyInt(SP)
    /\ reg[SP] = Pre2.reg[SP]

(* ---------------------------------------------------------------- *)
(* C7: DIV a,b with reg[b] = 0 ends the run with ZeroDivisionError:  *)
(* registers, memory, PC and output are what they were before the    *)
(* DIV, and no further step is possible.                             *)
(* ---------------------------------------------------------------- *)
C7_DivByZero ==
    (/\ Ran(DIV)
     /\ IsReg(ArgA(Pre)) /\ IsReg(ArgB(Pre))
     /\ PyIsZero(Pre.reg[ArgB(Pre).n])) =>
        /\ exc = "ZeroDivisionError"
        /\ reg = Pre.reg
        /\ ram = Pre.ram
        /\ PC = Pre.PC
        /\ out = Pre.out
        /\ ~ENABLED Next

\* a division by zero after a value has been printed
C7_Witness ==
    /\ Ran(DIV) /\ IsReg(ArgA(Pre)) /\ IsReg(ArgB(Pre))
    /\ PyIsZero(Pre.reg[ArgB(Pre).n])
    /\ exc = "ZeroDivisionError"
    /\ out = <<PyInt(7)>>

(* ---------------------------------------------------------------- *)
(* C8: when the byte at address 0 is neither ADD, SUB, MUL, DIV, CMP *)
(* nor a key of the dispatch table, the first cycle raises (Exception *)
(* "Unsupported ALU operation" if bit 5 is set, KeyError otherwise),  *)
(* PC is still 0, no register or memory cell has changed, nothing has *)
(* been printed and no further step is possible.                      *)
(* ---------------------------------------------------------------- *)
AluOps == {ADD, SUB, MUL, DIV, CMP}

C8_UnknownFirstByte ==
    (/\ pos = "run" /\ steps = 1
     /\ Pre.ram[0].n \notin AluOps \cup DOMAIN branchtable) =>
        /\ exc = (IF Bit0(Shr(Pre.ram[0].n, 5)) = 1 THEN "Exception" ELSE "KeyError")
        /\ PC = PyInt(0)
        /\ reg = Pre.reg
        /\ ram = Pre.ram
        /\ out = <<>>
        /\ ~ENABLED Next

C8_Witness ==
    /\ pos = "run" /\ steps = 1
    /\ Pre.ram[0].n \notin AluOps \cup DOMAIN branchtable
    /\ exc = "KeyError" /\ PC = PyInt(0) /\ out = <<>>

(* ---------------------------------------------------------------- *)
(* C9: every address with which ram_read or ram_write reaches a     *)
(* memory cell is in 0..255, and a cycle that a memory subscript     *)
(* ended (MAR holds the address it refused) has left memory as it    *)
(* was.                                                              *)
(* ---------------------------------------------------------------- *)
C9_AddressesInRange ==
    /\ \A a \in acc : a.k = "int" /\ a.n \in 0..(RamSize - 1)
    /\ (steps >= 1 /\ exc # "none" /\ IndexErr(MAR, RamSize) # "none") => ram = Pre.ram

(* ---------------------------------------------------------------- *)
(* C10: CPU() returns, and the object it returns has 256 zero cells,  *)
(* registers 0..6 zero, register 7 = 0xF4, PC = 0, FL = 0 and         *)
(* running = True.                                                    *)
(* ---------------------------------------------------------------- *)
C10_ConstructOk ==
    /\ pos # "new" => ctorErr = "none"
    /\ pos = "load" =>
        /\ DOMAIN ram = 0..255 /\ \A a \in 0..255 : ram[a] = PyInt(0)
        /\ DOMAIN reg = 0..7
        /\ \A i \in 0..6 : reg[i] = PyInt(0)
        /\ reg[7] = PyInt(244)
        /\ PC = PyInt(0)
        /\ FL = 0
        /\ running
        /\ exc = "none"

(* ---------------------------------------------------------------- *)
(* C11: a JMP r that runs at p with r in 0..7 leaves PC = reg[r],    *)
(* whatever the flags are, and changes no register, no memory cell   *)
(* and no flag.                                                      *)
(* ---------------------------------------------------------------- *)
C11_JmpSetsPC ==
    (Ran(JMP) /\ IsReg(ArgA(Pre))) =>
        /\ exc = "none"
        /\ PC = Pre.reg[ArgA(Pre).n]
        /\ reg = Pre.reg
        /\ ram = Pre.ram
        /\ fl = Pre.fl

(* ---------------------------------------------------------------- *)
(* C12: DIV a,b with reg[a], reg[b] integers and reg[b] # 0 leaves   *)
(* in reg[a] the integer floor of reg[a] / reg[b] (7 / 2 gives 3).   *)
(* ---------------------------------------------------------------- *)
C12_DivFloors ==
    (/\ Ran(DIV) /\ IsReg(ArgA(Pre)) /\ IsReg(ArgB(Pre))
     /\ Pre.reg[ArgA(Pre).n].k = "int" /\ Pre.reg[ArgB(Pre).n].k = "int"
     /\ Pre.reg[ArgB(Pre).n].n > 0) =>
        /\ exc = "none"
        /\ reg[ArgA(Pre).n] = PyInt(Pre.reg[ArgA(Pre).n].n \div Pre.reg[ArgB(Pre).n].n)

(* ---------------------------------------------------------------- *)
(* C13: the loop of run ends without an error (SystemExit from a     *)
(* cycle, running = False) only in a cycle that executed HLT, and     *)
(* once the loop has ended, by HLT or by any exception, no further    *)
(* step is possible: nothing is fetched and PC, registers, memory,    *)
(* flags and output stay as they are.                                 *)
(* ---------------------------------------------------------------- *)
C13_HaltIsFinal ==
    /\ (pos = "run" /\ steps >= 1 /\ exc = "SystemExit") => (Ran(HLT) /\ ~running)
    /\ (pos = "run" /\ ~running) => (Ran(HLT) /\ exc = "SystemExit")
    /\ (pos = "run" /\ (exc # "none" \/ ~running)) => ~ENABLED Next

\* a HLT after a value has been printed
C13_Witness ==
    /\ Ran(HLT) /\ exc = "SystemExit" /\ ~running
    /\ out # <<>> /\ out = Pre.out /\ PC = Pre.PC
    /\ ~ENABLED Next

(* ---------------------------------------------------------------- *)
(* C14: when every significant line of the image (the text before    *)
(* its first '#' starts with '0' or '1') has a binary literal as its *)
(* first 8 characters and there are at most 256 of them, load raises *)
(* nothing and leaves at address k - 1 the value of the literal of    *)
(* the k-th significant line, in file order, and 0 in every other     *)
(* cell; an image without significant lines leaves memory all zero.   *)
(* ---------------------------------------------------------------- *)
\* the text of a line before its first '#'
Payload(line) ==
    SubSeq(line, 1, CHOOSE n \in 0..Len(line) :
                        /\ \A i \in 1..n : line[i] # "#"
                        /\ n = Len(line) \/ line[n + 1] = "#")
Significant(line) == Payload(line) # <<>> /\ Payload(line)[1] \in {"0", "1"}
SignificantLines == SelectSeq(file, Significant)

\* the first 8 characters of the payload, without the blanks or the newline after the digits
Literal(line) ==
    LET p == Payload(line)
        f == SubSeq(p, 1, IF Len(p) < 8 THEN Len(p) ELSE 8)
    IN  SubSeq(f, 1, CHOOSE n \in 0..Len(f) :
                        /\ n = 0 \/ f[n] \notin Whitespace
                        /\ \A i \in (n + 1)..Len(f) : f[i] \in Whitespace)
IsBinaryLiteral(t) == t # <<>> /\ \A i \in 1..Len(t) : t[i] \in {"0", "1"}

\* the number a binary literal denotes, most significant digit first
RECURSIVE ByteValue(_, _)
ByteValue(t, a) ==
    IF t = <<>> THEN a ELSE ByteValue(Tail(t), 2 * a + (IF Head(t) = "1" THEN 1 ELSE 0))

WellFormedImage ==
    /\ Len(SignificantLines) <= RamSize
    /\ \A k \in 1..Len(SignificantLines) : IsBinaryLiteral(Literal(SignificantLines[k]))

Loaded == pos = "run" /\ steps = 0 /\ argc = 2 /\ fileExists

C14_LoadStores ==
    (Loaded /\ WellFormedImage) =>
        LET sig == SignificantLines
        IN  /\ exc = "none"
            /\ \A k \in 1..Len(sig) : ram[k - 1] = PyInt(ByteValue(Literal(sig[k]), 0))
            /\ \A a \in Len(sig)..(RamSize - 1) : ram[a] = PyInt(0)

\* an image with comment lines, a literal of more than 8 digits and shorter ones
C14_Witness ==
    /\ Loaded /\ WellFormedImage /\ exc = "none"
    /\ Len(SignificantLines) < Len(file)
    /\ \E i \in 1..Len(file) : Significant(file[i]) /\ Len(Payload(file[i])) > 8
    /\ \E i \in 1..Len(file) : Significant(file[i]) /\ Len(Payload(file[i])) < 8
    /\ ram[0] = PyInt(LDI) /\ ram[2] = PyInt(8) /\ ram[5] = PyInt(HLT)

(* ---------------------------------------------------------------- *)
(* C15: after a cycle that raised nothing, if bit 4 of the opcode it *)
(* executed is 0 then PC is its value before the cycle plus          *)
(* (opcode >> 6) + 1; if bit 4 is 1 the loop has added nothing: PC   *)
(* is the register CALL read, the byte RET popped, and for JMP, JEQ  *)
(* and JNE, whose handlers assign nothing, the value it had.         *)
(* ---------------------------------------------------------------- *)
Opcode(h) == h.ram[Index(h.PC, RamSize)].n

C15_PCAdvance ==
    (steps >= 1 /\ exc = "none") =>
        IF Bit0(Shr(Opcode(Pre), 4)) = 0
        THEN /\ Opcode(Pre) \in {LDI, PRN, PUSH, POP, ADD, SUB, MUL, DIV, CMP}
             /\ PC = PyAdd(Pre.PC, PyInt(Shr(Opcode(Pre), 6) + 1))
        ELSE /\ Opcode(Pre) \in {CALL, RET, JMP, JEQ, JNE}
             /\ Opcode(Pre) = CALL => PC = reg[Index(ram[Index(PyAdd(Pre.PC, PyInt(1)), RamSize)], NumRegs)]
             /\ Opcode(Pre) = RET => PC = Pre.ram[Index(Pre.reg[SP], RamSize)]
             /\ Opcode(Pre) \in {JMP, JEQ, JNE} => PC = Pre.PC

\* a two-operand instruction stepped over, then a CALL that jumps
C15_Witness ==
    /\ steps >= 2 /\ exc = "none"
    /\ At(Pre2, LDI) /\ Pre.PC = PyAdd(Pre2.PC, PyInt(3))
    /\ At(Pre, CALL) /\ IsReg(ArgA(Pre)) /\ PC = Pre.reg[ArgA(Pre).n]
    /\ PC # PyAdd(Pre.PC, PyInt(2))

(* ---------------------------------------------------------------- *)
(* C16: once the CPU is constructed every register always holds an   *)
(* integer in 0..255; in particular SUB with reg[a] < reg[b] and MUL *)
(* with a product above 255 leave the result modulo 256.             *)
(* ---------------------------------------------------------------- *)
IsByte(v) == v.k = "int" /\ v.n \in 0..255

C16_RegistersAreBytes ==
    /\ pos \in {"load", "run"} => \A i \in 0..(NumRegs - 1) : IsByte(reg[i])
    /\ \A op \in {SUB, MUL} :
          (/\ Ran(op) /\ exc = "none" /\ IsReg(ArgA(Pre)) /\ IsReg(ArgB(Pre))
           /\ IsByte(Pre.reg[ArgA(Pre).n]) /\ IsByte(Pre.reg[ArgB(Pre).n])) =>
              reg[ArgA(Pre).n] =
                  PyInt((IF op = SUB THEN Pre.reg[ArgA(Pre).n].n - Pre.reg[ArgB(Pre).n].n
                                     ELSE Pre.reg[ArgA(Pre).n].n * Pre.reg[ArgB(Pre).n].n) % 256)

(* ---------------------------------------------------------------- *)
(* C17: the flags change only in a cycle that executes CMP: every    *)
(* other cycle leaves the flags value as it was, and after a CMP the *)
(* value is the one this CMP's own tests build up from zero, with no *)
(* bit left over from the value before (zero when the CMP raised     *)
(* after its reset).  Stated of self.fl, the only flags value the    *)
(* code ever writes; self.FL, the field of line 40, stays 0 in every *)
(* cycle, CMP included.                                              *)
(* ---------------------------------------------------------------- *)
C17_FlagsOnlyByCmp ==
    /\ pos \in {"load", "run"} => FL = 0
    /\ steps >= 1 =>
          IF At(Pre, CMP)
          THEN IF exc = "none"
               THEN fl = CmpFlags(Pre.reg[Index(ArgA(Pre), NumRegs)],
                                  Pre.reg[Index(ArgB(Pre), NumRegs)])
               ELSE fl = 0
          ELSE fl = Pre.fl

\* a CMP of unequal registers right after a CMP that had set the bits
C17_Witness ==
    /\ steps >= 2 /\ At(Pre2, CMP) /\ At(Pre, CMP) /\ exc = "none"
    /\ FlagE(Pre.fl) /\ FlagG(Pre.fl) /\ FlagL(Pre.fl)
    /\ fl = 0 /\ FL = 0

(* ---------------------------------------------------------------- *)
(* C18: nothing is printed before the first cycle; a cycle that      *)
(* executes PRN r and raises nothing leaves the output it found with *)
(* the value reg[r] had added at the end; every other cycle, one     *)
(* that raised included, leaves the output exactly as it found it.   *)
(* ---------------------------------------------------------------- *)
C18_OutputOnlyGrows ==
    /\ (pos = "run" /\ steps = 0) => out = <<>>
    /\ steps >= 1 =>
          IF At(Pre, PRN) /\ exc = "none"
          THEN out = Append(Pre.out, Pre.reg[Index(ArgA(Pre), NumRegs)])
          ELSE out = Pre.out

\* a value is printed, and the next cycle raises: the value is still there
C18_Witness ==
    /\ steps >= 2 /\ At(Pre2, PRN) /\ IsReg(ArgA(Pre2))
    /\ exc \notin {"none", "SystemExit"}
    /\ Pre.out = Append(Pre2.out, Pre2.reg[ArgA(Pre2).n])
    /\ out = Pre.out /\ out # <<>>

(* ---------------------------------------------------------------- *)
(* C19: a cycle that starts with PC = 254 or PC = 255 raises         *)
(* IndexError in its reads of PC + 1 and PC + 2, before anything is   *)
(* dispatched: running is still True, PC, registers, memory, flags    *)
(* and output are what they were, and no further step is possible.    *)
(* So a HLT at 254 or 255 never ends the run by SystemExit.           *)
(* ---------------------------------------------------------------- *)
C19_FetchPastEnd ==
    (steps >= 1 /\ Pre.PC \in {PyInt(RamSize - 2), PyInt(RamSize - 1)}) =>
        /\ exc = "IndexError"
        /\ running
        /\ PC = Pre.PC
        /\ reg = Pre.reg
        /\ ram = Pre.ram
        /\ fl = Pre.fl
        /\ out = Pre.out
        /\ ~ENABLED Next

\* the cycle started at 254, where a HLT was
C19_Witness ==
    /\ steps >= 1 /\ Pre.PC = PyInt(RamSize - 2)
    /\ Pre.ram[RamSize - 2] = PyInt(HLT)
    /\ exc = "IndexError" /\ running

====
